---------------------------- MODULE Spec2Model ----------------------------
(***************************************************************************)
(* Model of package query (src/query/encode.go): the encoding of a struct  *)
(* into url.Values.                                                        *)
(*                                                                         *)
(* A Go string is a sequence of one-character strings, so that splitting,  *)
(* joining and concatenation are computed and not assumed.  A reflect.Value*)
(* is a record with a field kind (reflect.Kind) and the fields of its kind.*)
(* url.Values (map[string][]string) is a function from the keys present to *)
(* the sequence of values of each key.                                     *)
(***************************************************************************)
EXTENDS Integers, Sequences, FiniteSets, TLC

VARIABLES
    v,        \* the argument of Values, as reflect.ValueOf(v)
    pc,       \* "idle" before the first call, "done" after a call returned
    values,   \* the url.Values returned by the last call (<<>> if nil or none)
    isNilMap, \* TRUE iff the last call returned a nil map
    err,      \* the error returned by the last call
    calls,    \* the EncodeValues invocations of the last call, in order
    prev,     \* what the call before the last one returned
    ncalls    \* number of calls made so far

vars == <<v, pc, values, isNilMap, err, calls, prev, ncalls>>

---------------------------------------------------------------------------
(* Bounds of the model. *)

MaxLen == 2      \* longest slice or array
MaxPtr == 2      \* longest pointer chain
MaxDepth == 2    \* deepest nesting of structs below the top-level struct
MaxFields == 2   \* most fields in a struct built from the field menu
MaxCalls == 2    \* calls of Values on the same input

---------------------------------------------------------------------------
(* Strings. *)

omitempty == <<"o","m","i","t","e","m","p","t","y">>
intopt == <<"i","n","t">>
unix == <<"u","n","i","x">>
comma == <<"c","o","m","m","a">>
space == <<"s","p","a","c","e">>
semicolon == <<"s","e","m","i","c","o","l","o","n">>
brackets == <<"b","r","a","c","k","e","t","s">>
numbered == <<"n","u","m","b","e","r","e","d">>

Digit == <<"0","1","2","3","4","5","6","7","8","9">>

RECURSIVE FormatNat(_)
FormatNat(n) ==
    IF n < 10 THEN <<Digit[n + 1]>>
    ELSE FormatNat(n \div 10) \o <<Digit[(n % 10) + 1]>>

\* strconv.FormatInt(n, 10) and the %d verb
FormatInt(n) == IF n < 0 THEN <<"-">> \o FormatNat(0 - n) ELSE FormatNat(n)

\* strings.Split(s, sep) for a one-character separator: the pieces between
\* the occurrences of sep, one more than there are occurrences
Split(s, sep) ==
    LET at == { i \in 1..Len(s) : s[i] = sep }
        \* the position of the k-th separator; 0 and Len(s) + 1 close the ends
        pos(k) == IF k = 0 THEN 0
                  ELSE IF k > Cardinality(at) THEN Len(s) + 1
                  ELSE CHOOSE i \in at : Cardinality({ j \in at : j < i }) = k - 1
    IN  [ k \in 1..(Cardinality(at) + 1) |-> SubSeq(s, pos(k - 1) + 1, pos(k) - 1) ]

---------------------------------------------------------------------------
(* Tags. *)

parseTag(tag) ==
    LET s == Split(tag, ",")
    IN  [name |-> s[1], opts |-> Tail(s)]

Contains(o, option) == \E i \in 1..Len(o) : o[i] = option

---------------------------------------------------------------------------
(* reflect: kinds, types, pointers. *)

NoErr == [kind |-> "none", detail |-> <<>>]

IsSeqKind(sv) == sv.kind = "slice" \/ sv.kind = "array"

\* v.Type() == timeType
IsTimeType(sv) == sv.kind = "struct" /\ sv.type = "time.Time"

\* the methods of the pointed-to type not looked at
Implements_NoPointer(sv) == "recv" \in DOMAIN sv /\ sv.recv = "value"

\* sv.Type().Implements(encoderType): the method set of T holds the methods
\* with receiver T, the method set of *T those with receiver T or *T.
Implements(sv) ==
    IF sv.kind = "ptr"
    THEN "recv" \in DOMAIN sv.elem
    ELSE "recv" \in DOMAIN sv /\ sv.recv = "value"

\* the for loops that follow a chain of pointers until a nil pointer or a
\* non-pointer
RECURSIVE Deref(_)
Deref(val) ==
    IF val.kind = "ptr" /\ ~val.isNil THEN Deref(val.elem) ELSE val

---------------------------------------------------------------------------
(* url.Values. *)

EmptyValues == [k \in {} |-> <<>>]

\* url.Values.Set in place of Add: the value replaces those of the key
Add_Set(m, key, value) ==
    IF key \in DOMAIN m
    THEN [m EXCEPT ![key] = <<value>>]
    ELSE m @@ (key :> <<value>>)

\* url.Values.Add: v[key] = append(v[key], value)
Add(m, key, value) ==
    IF key \in DOMAIN m
    THEN [m EXCEPT ![key] = Append(@, value)]
    ELSE m @@ (key :> <<value>>)

\* values.Add on the map of a traversal state
AddEntry(st, key, value) == [st EXCEPT !.values = Add(@, key, value)]

---------------------------------------------------------------------------
(* time.Time and fmt, for the values of the model: the zero Time and the   *)
(* instants of the first minute of 1970, in UTC.                           *)

TwoDigits(n) == <<Digit[(n \div 10) + 1], Digit[(n % 10) + 1]>>

\* t.Format(time.RFC3339)
FormatRFC3339(t) ==
    IF t.isZero
    THEN <<"0","0","0","1","-","0","1","-","0","1","T","0","0",":","0","0",":","0","0","Z">>
    ELSE <<"1","9","7","0","-","0","1","-","0","1","T","0","0",":","0","0",":">>
         \o TwoDigits(t.unix) \o <<"Z">>

\* strconv.FormatInt(t.Unix(), 10)
FormatUnix(t) ==
    IF t.isZero
    THEN <<"-","6","2","1","3","5","5","9","6","8","0","0">>
    ELSE FormatInt(t.unix)

\* fmt.Sprint(v.Interface())
RECURSIVE Sprint(_), SprintElems(_)
SprintElems(elems) ==
    IF elems = <<>> THEN <<>>
    ELSE IF Len(elems) = 1 THEN Sprint(elems[1])
    ELSE Sprint(Head(elems)) \o <<" ">> \o SprintElems(Tail(elems))

Sprint(x) ==
    CASE x.kind = "bool" -> IF x.b THEN <<"t","r","u","e">> ELSE <<"f","a","l","s","e">>
      [] x.kind = "int" -> FormatInt(x.n)
      [] x.kind = "string" -> x.s
      [] IsSeqKind(x) -> <<"[">> \o SprintElems(x.elems) \o <<"]">>
      [] x.kind = "interface" ->
            IF x.isNil THEN <<"<","n","i","l",">">> ELSE Sprint(x.elem)

---------------------------------------------------------------------------
(* valueString, isEmptyValue. *)

RECURSIVE valueString(_, _)
valueString(val, opts) ==
    IF val.kind = "ptr"
    THEN IF val.isNil THEN <<>> ELSE valueString(val.elem, opts)
    ELSE IF val.kind = "bool" /\ Contains(opts, intopt)
    THEN IF val.b THEN <<"1">> ELSE <<"0">>
    ELSE IF IsTimeType(val)
    THEN IF Contains(opts, unix) THEN FormatUnix(val) ELSE FormatRFC3339(val)
    ELSE Sprint(val)

\* without the test of time.Time
isEmptyValue_NoTime(val) ==
    CASE val.kind \in {"array", "map", "slice"} -> Len(val.elems) = 0
      [] val.kind = "string" -> Len(val.s) = 0
      [] val.kind = "bool" -> ~val.b
      [] val.kind = "int" -> val.n = 0
      [] val.kind \in {"interface", "ptr"} -> val.isNil
      [] OTHER -> FALSE

isEmptyValue(val) ==
    CASE val.kind \in {"array", "map", "slice"} -> Len(val.elems) = 0
      [] val.kind = "string" -> Len(val.s) = 0
      [] val.kind = "bool" -> ~val.b
      [] val.kind = "int" -> val.n = 0
      [] val.kind \in {"interface", "ptr"} -> val.isNil
      [] OTHER -> IF IsTimeType(val) THEN val.isZero ELSE FALSE

---------------------------------------------------------------------------
(* The custom encoder of a field: Encoder.EncodeValues is code of the      *)
(* caller.  An encoder type of the model adds one entry under the key it   *)
(* is given (adds), or none, and reports failure (fails), or success.      *)

EncoderError(key) == [kind |-> "encoder", detail |-> key]

\* the zero-valued instance: sv = reflect.New(sv.Type().Elem())
NewZero(sv) == [sv EXCEPT !.isNil = FALSE]

\* the value EncodeValues is invoked on: a nil pointer is replaced by a
\* pointer to a new zero value
Receiver(sv) ==
    IF sv.kind = "ptr"
    THEN IF sv.isNil THEN NewZero(sv).elem ELSE sv.elem
    ELSE sv

\* m.EncodeValues(name, &values), and what the loop sees of it
EncodeValues(st, m, key) ==
    LET vals == IF m.adds THEN Add(st.values, key, <<"E">> \o FormatInt(m.n))
                ELSE st.values
        e == IF m.fails THEN EncoderError(key) ELSE NoErr
    IN  [values |-> vals,
         calls  |-> Append(st.calls, [key |-> key, n |-> m.n, err |-> e, after |-> vals]),
         err    |-> e]

---------------------------------------------------------------------------
(* Slices and arrays. *)

\* space tested before comma
Delimiter_SpaceFirst(opts) ==
    IF Contains(opts, space) THEN <<" ">>
    ELSE IF Contains(opts, comma) THEN <<",">>
    ELSE IF Contains(opts, semicolon) THEN <<";">>
    ELSE <<>>

\* the delimiter chosen by the options; <<>> is del == 0
Delimiter(opts) ==
    IF Contains(opts, comma) THEN <<",">>
    ELSE IF Contains(opts, space) THEN <<" ">>
    ELSE IF Contains(opts, semicolon) THEN <<";">>
    ELSE <<>>

\* name = name + "[]", in the last arm of the chain of options
SliceName(name, opts) ==
    IF Delimiter(opts) = <<>> /\ Contains(opts, brackets)
    THEN name \o <<"[", "]">>
    ELSE name

\* the buffer s of the joined elements
RECURSIVE JoinElems(_, _, _)
JoinElems(elems, del, opts) ==
    IF elems = <<>> THEN <<>>
    ELSE IF Len(elems) = 1 THEN valueString(elems[1], opts)
    ELSE valueString(Head(elems), opts) \o del \o JoinElems(Tail(elems), del, opts)

\* elements numbered from one
ElemKey_OneBased(name, opts, i) ==
    IF Contains(opts, numbered) THEN name \o FormatInt(i + 1) ELSE name

\* k of element i (zero-based)
ElemKey(name, opts, i) ==
    IF Contains(opts, numbered) THEN name \o FormatInt(i) ELSE name

\* the loop adding elements i.. (zero-based) one by one
RECURSIVE AddElems(_, _, _, _, _)
AddElems(st, elems, i, name, opts) ==
    IF i >= Len(elems) THEN st
    ELSE AddElems(AddEntry(st, ElemKey(name, opts, i), valueString(elems[i + 1], opts)),
                  elems, i + 1, name, opts)

encodeSlice(st, sv, name0, opts) ==
    LET del == Delimiter(opts)
        name == SliceName(name0, opts)
    IN  IF del # <<>>
        THEN AddEntry(st, name, JoinElems(sv.elems, del, opts))
        ELSE AddElems(st, sv.elems, 0, name, opts)

---------------------------------------------------------------------------
(* reflectValue. *)

\* sf.PkgPath != "" && !sf.Anonymous
Unexported(sf) == sf.PkgPath # <<>> /\ ~sf.Anonymous

\* the sentinel mistaken for another
TagIsDash_Underscore(tag) == tag = <<"_">>

\* tag == "-"
TagIsDash(tag) == tag = <<"-">>

\* sf.Anonymous && sv.Kind() == reflect.Struct, for a field without name
IsDeferred(sf) == sf.Anonymous /\ sf.val.kind = "struct"

\* the scope left out of the name
ScopedName_NoScope(scope, name) == name

\* name = scope + "[" + name + "]"
ScopedName(scope, name) ==
    IF scope # <<>> THEN scope \o <<"[">> \o name \o <<"]">> ELSE name

\* the statement reflectValue(values, sv, name): the call's result is dropped
NestedResult(r) == [r EXCEPT !.err = NoErr]

RECURSIVE reflectValue(_, _, _), fieldLoop(_, _, _, _, _), embeddedLoop(_, _, _, _)

\* the second loop, over the embedded structs saved by the first
embeddedLoop(st, embedded, scope, j) ==
    IF j > Len(embedded) THEN st
    ELSE LET r == reflectValue(st, embedded[j], scope)
         IN  IF r.err # NoErr THEN r
             ELSE embeddedLoop(r, embedded, scope, j + 1)

\* the first loop, from field i (one-based) on
fieldLoop(st, val, scope, i, embedded) ==
    IF i > Len(val.fields) THEN embeddedLoop(st, embedded, scope, 1)
    ELSE
    LET sf == val.fields[i]
        sv == sf.val
        tag == sf.Tag
        pt == parseTag(tag)
        opts == pt.opts
        name == ScopedName(scope, IF pt.name = <<>> THEN sf.Name ELSE pt.name)
    IN  IF Unexported(sf) THEN fieldLoop(st, val, scope, i + 1, embedded)
        ELSE IF TagIsDash(tag) THEN fieldLoop(st, val, scope, i + 1, embedded)
        ELSE IF pt.name = <<>> /\ IsDeferred(sf)
        THEN fieldLoop(st, val, scope, i + 1, Append(embedded, sv))
        ELSE IF Contains(opts, omitempty) /\ isEmptyValue(sv)
        THEN fieldLoop(st, val, scope, i + 1, embedded)
        ELSE IF Implements(sv)
        THEN LET r == EncodeValues(st, Receiver(sv), name)
             IN  IF r.err # NoErr THEN r
                 ELSE fieldLoop(r, val, scope, i + 1, embedded)
        ELSE IF IsSeqKind(sv)
        THEN fieldLoop(encodeSlice(st, sv, name, opts), val, scope, i + 1, embedded)
        ELSE IF IsTimeType(sv)
        THEN fieldLoop(AddEntry(st, name, valueString(sv, opts)), val, scope, i + 1, embedded)
        ELSE LET d == Deref(sv)
             IN  IF d.kind = "struct"
                 THEN fieldLoop(NestedResult(reflectValue(st, d, name)),
                                val, scope, i + 1, embedded)
                 ELSE fieldLoop(AddEntry(st, name, valueString(d, opts)),
                                val, scope, i + 1, embedded)

reflectValue(st, val, scope) == fieldLoop(st, val, scope, 1, <<>>)

\* the state of a traversal that starts on values := make(url.Values)
NewState == [values |-> EmptyValues, calls |-> <<>>, err |-> NoErr]


---------------------------------------------------------------------------
(* Values. *)

InvalidInputError(val) == [kind |-> "InvalidInput", detail |-> <<val.kind>>]

\* the loop of Values over the pointers of v: TRUE iff it meets a nil pointer
RECURSIVE ReachesNilPtr(_)
ReachesNilPtr(val) ==
    val.kind = "ptr" /\ (val.isNil \/ ReachesNilPtr(val.elem))

\* v == nil: reflect.ValueOf(nil) is the zero Value, of kind Invalid
IsNilValue(val) == val.kind = "invalid"

\* the kind tested before the pointers are followed
NotStruct_NoDeref(val) == val.kind # "struct"

\* val.Kind() != reflect.Struct, after the loop
NotStruct(val) == Deref(val).kind # "struct"

\* what a call returns: the map, whether it is nil, the error, and the
\* invocations of custom encoders it made
Result(m, nilMap, e, c) == [values |-> m, isNilMap |-> nilMap, err |-> e, calls |-> c]

ValuesOf(val) ==
    IF ReachesNilPtr(val) THEN Result(EmptyValues, FALSE, NoErr, <<>>)
    ELSE IF IsNilValue(val) THEN Result(EmptyValues, FALSE, NoErr, <<>>)
    ELSE IF NotStruct(val) THEN Result(EmptyValues, TRUE, InvalidInputError(Deref(val)), <<>>)
    ELSE LET st == reflectValue(NewState, Deref(val), <<>>)
         IN  Result(st.values, FALSE, st.err, st.calls)

---------------------------------------------------------------------------
(* The inputs of the model. *)

Bool(b) == [kind |-> "bool", b |-> b]
IntV(n) == [kind |-> "int", n |-> n]
String(s) == [kind |-> "string", s |-> s]
Seq0(kind, elems) == [kind |-> kind, elems |-> elems]
Ptr(x) == [kind |-> "ptr", isNil |-> FALSE, elem |-> x]
\* a nil pointer of type *T, T given by its zero value
NilPtr(zero) == [kind |-> "ptr", isNil |-> TRUE, elem |-> zero]
Iface(x) == [kind |-> "interface", isNil |-> FALSE, elem |-> x]
NilIface == [kind |-> "interface", isNil |-> TRUE, elem |-> IntV(0)]
Invalid == [kind |-> "invalid"]
\* a named integer type with an EncodeValues method on receiver T ("value")
\* or *T ("ptr")
Enc(n, recv, fails, adds) ==
    [kind |-> "int", n |-> n, recv |-> recv, fails |-> fails, adds |-> adds]

Field(name, tag, val) ==
    [Name |-> name, PkgPath |-> <<>>, Anonymous |-> FALSE, Tag |-> tag, val |-> val]
Struct(fields) == [kind |-> "struct", type |-> "T", fields |-> fields]

\* time.Time: a struct of three unexported fields
TimeFields ==
    << [Name |-> <<"w","a","l","l">>, PkgPath |-> <<"t","i","m","e">>, Anonymous |-> FALSE,
        Tag |-> <<>>, val |-> IntV(0)],
       [Name |-> <<"e","x","t">>, PkgPath |-> <<"t","i","m","e">>, Anonymous |-> FALSE,
        Tag |-> <<>>, val |-> IntV(0)],
       [Name |-> <<"l","o","c">>, PkgPath |-> <<"t","i","m","e">>, Anonymous |-> FALSE,
        Tag |-> <<>>, val |-> NilPtr(IntV(0))] >>
ZeroTime == [kind |-> "struct", type |-> "time.Time", fields |-> TimeFields,
             isZero |-> TRUE, unix |-> 0]
TimeAt(sec) == [kind |-> "struct", type |-> "time.Time", fields |-> TimeFields,
                isZero |-> FALSE, unix |-> sec]

\* the options in the order the tags of the model list them
OptOrder == <<numbered, brackets, semicolon, space, comma, unix, intopt, omitempty>>

RECURSIVE TagOf(_, _)
TagOf(name, opts) ==
    IF opts = <<>> THEN name
    ELSE TagOf(name, SubSeq(opts, 1, Len(opts) - 1)) \o <<",">> \o opts[Len(opts)]

\* the tags with one of the names and a subset of the options allowed
TagNames == { <<>>, <<"a">>, <<"-">> }
Tags(names, allowed) ==
    { TagOf(n, SelectSeq(OptOrder, LAMBDA o : o \in chosen)) :
        n \in names, chosen \in SUBSET allowed }

RECURSIVE SeqsUpTo(_, _)
SeqsUpTo(S, n) ==
    IF n = 0 THEN { <<>> }
    ELSE LET shorter == SeqsUpTo(S, n - 1)
         IN  shorter \cup { Append(q, x) : q \in { r \in shorter : Len(r) = n - 1 }, x \in S }

RECURSIVE PtrChain(_, _)
PtrChain(x, k) == IF k = 0 THEN x ELSE Ptr(PtrChain(x, k - 1))

ScalarVals == { Bool(TRUE), Bool(FALSE), IntV(0), IntV(12), String(<<>>), String(<<"x">>) }
IfaceVals == { NilIface, Iface(IntV(1)) }
TimeVals == { ZeroTime, TimeAt(5) }
SeqVals ==
    { Seq0(k, e) : k \in {"slice", "array"},
                   e \in SeqsUpTo({ String(<<"x">>), String(<<"y">>) }, MaxLen) }
    \cup { Seq0("slice", e) : e \in { <<Bool(TRUE), Bool(FALSE)>>,
                                        <<Ptr(String(<<"x">>)), NilPtr(String(<<>>))>> } }
EncTypes == { Enc(n, r, f, a) : n \in {0, 1}, r \in {"value", "ptr"}, f \in BOOLEAN, a \in BOOLEAN }
EncVals ==
    EncTypes \cup { Ptr(e) : e \in EncTypes }
             \cup { NilPtr(e) : e \in { t \in EncTypes : t.n = 0 } }
PtrTargets ==
    { IntV(0), IntV(12), String(<<"x">>), Bool(FALSE), ZeroTime, TimeAt(5),
      Seq0("slice", <<>>), Seq0("slice", << String(<<"x">>), String(<<"y">>) >>),
      Struct(<< Field(<<"B">>, <<"b">>, IntV(12)) >>),
      NilPtr(IntV(0)), NilPtr(Struct(<<>>)) }
PtrVals == { PtrChain(x, k) : x \in PtrTargets, k \in 1..MaxPtr }

LeafFields ==
    { Field(<<"A">>, t, x) : x \in ScalarVals, t \in Tags(TagNames, {omitempty, intopt}) }
    \cup { Field(<<"A">>, t, x) : x \in IfaceVals, t \in Tags(TagNames, {omitempty}) }
    \cup { Field(<<"A">>, t, x) : x \in TimeVals, t \in Tags(TagNames, {omitempty, unix}) }
    \cup { Field(<<"A">>, t, x) : x \in SeqVals,
             t \in Tags({ <<>>, <<"a">> },
                         {omitempty, comma, space, semicolon, brackets, numbered}) }
    \cup { Field(<<"A">>, t, x) : x \in EncVals, t \in Tags(TagNames, {omitempty}) }
    \cup { Field(<<"A">>, t, x) : x \in PtrVals, t \in Tags(TagNames, {omitempty, comma, unix}) }

\* an unexported field, an embedded field of a type that is no struct, and a
\* struct of zero fields under omitempty
OddFields ==
    { [f EXCEPT !.PkgPath = <<"q">>] :
        f \in { Field(<<"a">>, t, IntV(12)) : t \in Tags(TagNames, {omitempty}) } }
    \cup { [f EXCEPT !.Anonymous = TRUE] :
             f \in { Field(<<"A">>, t, IntV(12)) : t \in Tags(TagNames, {omitempty}) } }
    \cup { Field(<<"N">>, t, Struct(<< Field(<<"B">>, <<"b">>, IntV(0)) >>)) :
             t \in Tags(TagNames, {omitempty}) }

\* the fields the structs of several fields are built from: two that share
\* the key a, an encoder that fails, a slice with a key of its own, a field
\* tagged "-"
Menu ==
    { Field(<<"A">>, <<"a">>, String(<<"x">>)),
      Field(<<"B">>, <<"a">>, IntV(12)),
      Field(<<"C">>, <<>>, Enc(1, "value", TRUE, TRUE)),
      Field(<<"D">>, <<"d",",","b","r","a","c","k","e","t","s">>,
            Seq0("slice", << String(<<"x">>), String(<<"y">>) >>)),
      Field(<<"E">>, <<"-">>, String(<<"x">>)) }

\* a struct as the value of a field of the enclosing struct
Nested(mode, r) ==
    CASE mode = "named" -> Field(<<"N">>, <<"n">>, Struct(r))
      [] mode = "pointer" -> Field(<<"N">>, <<>>, Ptr(Struct(r)))
      [] mode = "embedded" ->
            [Field(<<"T">>, <<>>, Struct(r)) EXCEPT !.Anonymous = TRUE]
      [] mode = "embeddedNamed" ->
            [Field(<<"T">>, <<"n">>, Struct(r)) EXCEPT !.Anonymous = TRUE]
      [] mode = "embeddedPointer" ->
            [Field(<<"T">>, <<>>, Ptr(Struct(r))) EXCEPT !.Anonymous = TRUE]
NestModes == { "named", "pointer", "embedded", "embeddedNamed" }

\* the fields of the structs that are nested: one emitted under the key a,
\* the encoder that fails, the field tagged "-"
InnerMenu == { f \in Menu : f.Name \in { <<"A">>, <<"C">>, <<"E">> } }

\* the field lists of one struct-valued field with d levels of structs below
\* the top-level struct
RECURSIVE FieldLists(_)
FieldLists(d) ==
    IF d = 0 THEN SeqsUpTo(InnerMenu, MaxFields)
    ELSE { << Nested(mode, r) >> : mode \in NestModes, r \in FieldLists(d - 1) }

\* the top-level structs: of one leaf field, of fields of the menu, of a
\* nested struct alone or followed by a field with the key a
Records ==
    { Struct(<<f>>) : f \in LeafFields \cup OddFields }
    \cup { Struct(r) : r \in SeqsUpTo(Menu, MaxFields) }
    \cup UNION { { Struct(r \o post) :
                     r \in FieldLists(d),
                     post \in { <<>>, << Field(<<"B">>, <<"a">>, IntV(12)) >> } }
                 : d \in 1..MaxDepth }
    \cup { Struct(<< Nested("embeddedPointer", r) >>) : r \in SeqsUpTo(Menu, 1) }

NonRecords == { IntV(12), String(<<"x">>), Seq0("slice", <<>>), Bool(TRUE) }

Inputs ==
    Records
    \cup { Invalid }
    \cup NonRecords
    \cup { PtrChain(x, k) :
             x \in NonRecords \cup { Struct(r) : r \in SeqsUpTo(Menu, 1) }
                   \cup { NilPtr(IntV(0)), NilPtr(Struct(<<>>)) },
             k \in 0..MaxPtr }

---------------------------------------------------------------------------
(* The calls of Values. *)

Init ==
    /\ v \in Inputs
    /\ pc = "idle"
    /\ values = EmptyValues
    /\ isNilMap = FALSE
    /\ err = NoErr
    /\ calls = <<>>
    /\ prev = Result(EmptyValues, FALSE, NoErr, <<>>)
    /\ ncalls = 0

Return(r) ==
    /\ values' = r.values
    /\ isNilMap' = r.isNilMap
    /\ err' = r.err
    /\ calls' = r.calls
    /\ prev' = Result(values, isNilMap, err, calls)
    /\ ncalls' = ncalls + 1
    /\ pc' = "done"
    /\ UNCHANGED v

\* return values, nil  (a nil pointer)
ValuesNilPointer ==
    /\ ncalls < MaxCalls
    /\ ReachesNilPtr(v)
    /\ Return(ValuesOf(v))

\* return values, nil  (v == nil)
ValuesNilValue ==
    /\ ncalls < MaxCalls
    /\ ~ReachesNilPtr(v)
    /\ IsNilValue(v)
    /\ Return(ValuesOf(v))

\* return nil, fmt.Errorf(...)
ValuesNotStruct ==
    /\ ncalls < MaxCalls
    /\ ~ReachesNilPtr(v)
    /\ ~IsNilValue(v)
    /\ NotStruct(v)
    /\ Return(ValuesOf(v))

\* return values, err
ValuesStruct ==
    /\ ncalls < MaxCalls
    /\ ~ReachesNilPtr(v)
    /\ ~IsNilValue(v)
    /\ ~NotStruct(v)
    /\ Return(ValuesOf(v))

Next == ValuesNilPointer \/ ValuesNilValue \/ ValuesNotStruct \/ ValuesStruct

Spec == Init /\ [][Next]_vars


---------------------------------------------------------------------------
(* What the properties below are stated with. *)

\* the result of the last call, as one value
Returned == Result(values, isNilMap, err, calls)

\* what the top-level input resolves to: nothing, a record, anything else
RECURSIVE Resolution(_)
Resolution(x) ==
    IF x.kind = "invalid" THEN "nil"
    ELSE IF x.kind = "ptr" THEN (IF x.isNil THEN "nil" ELSE Resolution(x.elem))
    ELSE IF x.kind = "struct" THEN "record"
    ELSE "other"

\* the value at the end of a chain of non-nil pointers
RECURSIVE Pointee(_)
Pointee(x) == IF x.kind = "ptr" /\ ~x.isNil THEN Pointee(x.elem) ELSE x

\* the fields of the record the input resolves to
TopFields == IF Resolution(v) = "record" THEN Pointee(v).fields ELSE <<>>

\* the scopes a field is encoded under: the top level and two nested ones
ScopeSamples == { <<>>, <<"n">>, <<"n","[","m","]">> }

\* the entries, encoder invocations and error a field contributes by itself
Contribution(sf, scope) == reflectValue(NewState, Struct(<<sf>>), scope)

TagName(sf) == Split(sf.Tag, ",")[1]
OptionSet(sf) ==
    LET s == Split(sf.Tag, ",") IN { s[i] : i \in 2..Len(s) }
Has(sf, option) == option \in OptionSet(sf)

\* a field the traversal looks at: exported or embedded, and not tagged "-"
Visible(sf) == (sf.PkgPath = <<>> \/ sf.Anonymous) /\ sf.Tag # <<"-">>

\* the name a field is emitted under in a scope
FieldKey(sf, scope) ==
    LET nm == IF TagName(sf) = <<>> THEN sf.Name ELSE TagName(sf)
    IN  IF scope = <<>> THEN nm ELSE scope \o <<"[">> \o nm \o <<"]">>

\* empty, as the documentation of Values lists it
Empty(x) ==
    \/ x.kind = "bool" /\ ~x.b
    \/ x.kind = "int" /\ x.n = 0
    \/ x.kind = "string" /\ x.s = <<>>
    \/ x.kind \in {"slice", "array", "map"} /\ x.elems = <<>>
    \/ x.kind \in {"ptr", "interface"} /\ x.isNil
    \/ x.kind = "struct" /\ x.type = "time.Time" /\ x.isZero

Omitted(sf) == Has(sf, omitempty) /\ Empty(sf.val)

\* the declared type of the field has the custom encoder capability
HasEncoder(x) ==
    \/ "recv" \in DOMAIN x /\ x.recv = "value"
    \/ x.kind = "ptr" /\ "recv" \in DOMAIN x.elem

At(m, k) == IF k \in DOMAIN m THEN m[k] ELSE <<>>

RECURSIVE Concat(_)
Concat(ss) == IF ss = <<>> THEN <<>> ELSE Head(ss) \o Concat(Tail(ss))

\* the strings ss joined by the delimiter d
RECURSIVE JoinWith(_, _)
JoinWith(ss, d) ==
    IF ss = <<>> THEN <<>>
    ELSE IF Len(ss) = 1 THEN ss[1]
    ELSE ss[1] \o d \o JoinWith(Tail(ss), d)

\* the stringified elements of a sequence-valued field, in order
ElemStrings(sf) ==
    [ i \in 1..Len(sf.val.elems) |-> valueString(sf.val.elems[i], parseTag(sf.Tag).opts) ]

HasJoinOption(sf) == Has(sf, comma) \/ Has(sf, space) \/ Has(sf, semicolon)

---------------------------------------------------------------------------
(* C1 *)

\* C1, as stated: a nil input or a pointer chain reaching nil returns an
\* empty non-nil map and no error; a record or a pointer chain ending in a
\* record returns the map and no error; any other input returns an error
\* and a nil map.
C1_Original ==
    pc = "done" =>
        CASE Resolution(v) = "nil" -> values = EmptyValues /\ ~isNilMap /\ err = NoErr
          [] Resolution(v) = "record" -> ~isNilMap /\ err = NoErr
          [] Resolution(v) = "other" ->
                values = EmptyValues /\ isNilMap /\ err.kind = "InvalidInput"

\* C1, amended: as C1_Original, but for a record the error is nil or the
\* error of a custom encoder invoked during the call, and the map is
\* returned (non-nil) in both cases.
C1_Classification ==
    pc = "done" =>
        CASE Resolution(v) = "nil" -> values = EmptyValues /\ ~isNilMap /\ err = NoErr
          [] Resolution(v) = "record" ->
                /\ ~isNilMap
                /\ \/ err = NoErr
                   \/ /\ err.kind = "encoder"
                      /\ \E i \in DOMAIN calls : calls[i].err = err
                /\ \A i \in DOMAIN calls :
                       calls[i].after # EmptyValues => values # EmptyValues
          [] Resolution(v) = "other" ->
                values = EmptyValues /\ isNilMap /\ err.kind = "InvalidInput"

\* a pointer to a record whose custom encoder failed: the map and the error
C1_Witness ==
    /\ pc = "done"
    /\ v.kind = "ptr"
    /\ Resolution(v) = "record"
    /\ ~isNilMap
    /\ values # EmptyValues
    /\ err.kind = "encoder"

---------------------------------------------------------------------------
(* C2 *)

\* C2: when a custom encoder reports failure, at any nesting depth, Values
\* returns that error and the map holds nothing added after the failure.
C2_AbortOnEncoderFailure ==
    pc = "done" =>
        \A i \in DOMAIN calls :
            calls[i].err # NoErr =>
                /\ err = calls[i].err
                /\ values = calls[i].after
                /\ i = Len(calls)

---------------------------------------------------------------------------
(* C3 *)

\* the input without the fields that are tagged "-": by the name the tag
\* parser gives (byName), or by the whole tag
RECURSIVE WithoutDash(_, _)
WithoutDash(x, byName) ==
    IF x.kind = "struct"
    THEN LET keep == SelectSeq(x.fields,
                        LAMBDA sf : IF byName THEN TagName(sf) # <<"-">>
                                    ELSE sf.Tag # <<"-">>)
         IN  [x EXCEPT !.fields =
                [ i \in 1..Len(keep) |->
                    [keep[i] EXCEPT !.val = WithoutDash(keep[i].val, byName)] ]]
    ELSE IF x.kind = "ptr" /\ ~x.isNil
    THEN [x EXCEPT !.elem = WithoutDash(x.elem, byName)]
    ELSE x

\* some exported field of x, at any depth, has the tag "-"
RECURSIVE HasDashField(_)
HasDashField(x) ==
    IF x.kind = "struct"
    THEN \E i \in 1..Len(x.fields) :
            \/ x.fields[i].Tag = <<"-">> /\ x.fields[i].PkgPath = <<>>
            \/ HasDashField(x.fields[i].val)
    ELSE IF x.kind = "ptr" /\ ~x.isNil THEN HasDashField(x.elem)
    ELSE FALSE

---------------------------------------------------------------------------
(* C4 *)

\* the tag of the field with the option omitempty taken out of its options
\* (the comma after the name stays)
RECURSIVE CommaList(_)
CommaList(opts) ==
    IF opts = <<>> THEN <<>>
    ELSE IF Len(opts) = 1 THEN opts[1]
    ELSE opts[1] \o <<",">> \o CommaList(Tail(opts))

WithoutOmitempty(sf) ==
    LET s == Split(sf.Tag, ",")
    IN  [sf EXCEPT !.Tag =
            s[1] \o <<",">> \o CommaList(SelectSeq(Tail(s), LAMBDA o : o # omitempty))]

\* C4: a visible field with omitempty whose value is empty adds no entry
\* and its custom encoder is not invoked; one whose value is not empty, or
\* of a kind without emptiness rule, adds what it adds without omitempty.
C4_Omitempty ==
    pc = "done" =>
        \A i \in 1..Len(TopFields) : \A scope \in ScopeSamples :
            LET sf == TopFields[i] IN
            (Visible(sf) /\ Has(sf, omitempty)) =>
                IF Empty(sf.val)
                THEN Contribution(sf, scope) = NewState
                ELSE Contribution(sf, scope) = Contribution(WithoutOmitempty(sf), scope)

\* an empty value of an encoder type with omitempty: no entry, no invocation
C4_Witness ==
    /\ pc = "done"
    /\ Len(TopFields) = 1
    /\ Has(TopFields[1], omitempty)
    /\ HasEncoder(TopFields[1].val)
    /\ Empty(TopFields[1].val)
    /\ calls = <<>>
    /\ values = EmptyValues

---------------------------------------------------------------------------
(* C5 *)

\* the delimiter of the join options, comma before space before semicolon
JoinDelimiter(sf) ==
    IF Has(sf, comma) THEN <<",">>
    ELSE IF Has(sf, space) THEN <<" ">>
    ELSE <<";">>

\* the one entry of a joined sequence
JoinedEntry(sf, scope) ==
    FieldKey(sf, scope) :> << JoinWith(ElemStrings(sf), JoinDelimiter(sf)) >>

\* C5, as stated: a sequence- or array-valued field with comma, space or
\* semicolon adds exactly one entry under its scoped name, for every length
\* including zero: the elements joined by the delimiter, whatever brackets
\* and numbered say.
C5_Original ==
    pc = "done" =>
        \A i \in 1..Len(TopFields) : \A scope \in ScopeSamples :
            LET sf == TopFields[i] IN
            (Visible(sf) /\ ~HasEncoder(sf.val) /\ IsSeqKind(sf.val) /\ HasJoinOption(sf)) =>
                /\ Contribution(sf, scope).values = JoinedEntry(sf, scope)
                /\ Contribution(sf, scope).err = NoErr

\* C5, amended: the same for the fields that omitempty does not omit (a
\* sequence of length zero with omitempty adds no entry).
C5_JoinedSequence ==
    pc = "done" =>
        \A i \in 1..Len(TopFields) : \A scope \in ScopeSamples :
            LET sf == TopFields[i] IN
            (Visible(sf) /\ ~HasEncoder(sf.val) /\ IsSeqKind(sf.val) /\ HasJoinOption(sf)
                /\ ~Omitted(sf)) =>
                /\ Contribution(sf, scope).values = JoinedEntry(sf, scope)
                /\ Contribution(sf, scope).err = NoErr

\* an empty sequence with semicolon and space: one entry, the empty string
C5_Witness ==
    /\ pc = "done"
    /\ Len(TopFields) = 1
    /\ IsSeqKind(TopFields[1].val)
    /\ TopFields[1].val.elems = <<>>
    /\ Has(TopFields[1], semicolon) /\ Has(TopFields[1], space) /\ Has(TopFields[1], brackets)
    /\ values = (<<"a">> :> << <<>> >>)
    /\ Contribution([TopFields[1] EXCEPT !.val.elems = << String(<<"x">>), String(<<"y">>) >>],
                    <<"n">>).values
          = (<<"n","[","a","]">> :> << <<"x"," ","y">> >>)

---------------------------------------------------------------------------
(* C6 *)

\* the values, in element order, of the elements whose key is k
RECURSIVE ValuesUnder(_, _, _, _)
ValuesUnder(k, keys, strs, i) ==
    IF i > Len(keys) THEN <<>>
    ELSE (IF keys[i] = k THEN <<strs[i]>> ELSE <<>>) \o ValuesUnder(k, keys, strs, i + 1)

\* the entries of a sequence whose element i (one-based) has the key keys[i]
ElementEntries(keys, strs) ==
    [ k \in { keys[i] : i \in 1..Len(keys) } |-> ValuesUnder(k, keys, strs, 1) ]

\* the key of element i (zero-based), as C6 states it
StatedElemKey(sf, scope, i) ==
    IF Has(sf, brackets) THEN FieldKey(sf, scope) \o <<"[", "]">>
    ELSE IF Has(sf, numbered) THEN FieldKey(sf, scope) \o FormatInt(i)
    ELSE FieldKey(sf, scope)

\* the key of element i (zero-based): brackets appends [], numbered then
\* appends the index
ElemKeyOf(sf, scope, i) ==
    LET base == IF Has(sf, brackets) THEN FieldKey(sf, scope) \o <<"[", "]">>
                ELSE FieldKey(sf, scope)
    IN  IF Has(sf, numbered) THEN base \o FormatInt(i) ELSE base

---------------------------------------------------------------------------
(* C7 *)

\* n1[n2]...[nk] for the path <<n1, ..., nk>>
RECURSIVE PathKey(_)
PathKey(path) ==
    IF Len(path) = 1 THEN path[1]
    ELSE PathKey(SubSeq(path, 1, Len(path) - 1)) \o <<"[">> \o path[Len(path)] \o <<"]">>

\* the suffixes the collection options put after the key of a sequence
KeySuffixes(sf) ==
    IF IsSeqKind(sf.val)
    THEN { <<>>, <<"[", "]">> }
         \cup { FormatInt(i) : i \in 0..Len(sf.val.elems) }
         \cup { <<"[", "]">> \o FormatInt(i) : i \in 0..Len(sf.val.elems) }
    ELSE { <<>> }

\* the keys of the leaf fields of a record reached by path: an embedded
\* record without tag name adds no segment, a record-valued field adds its
\* name.  With sure, only the leaves that are scalars without omitempty.
RECURSIVE LeafKeys(_, _, _)
LeafKeys(rec, path, sure) ==
    UNION { LET sf == rec.fields[i]
                nm == IF TagName(sf) = <<>> THEN sf.Name ELSE TagName(sf)
                x == Pointee(sf.val)
            IN  IF ~Visible(sf) THEN {}
                ELSE IF TagName(sf) = <<>> /\ sf.Anonymous /\ sf.val.kind = "struct"
                THEN LeafKeys(sf.val, path, sure)
                ELSE IF x.kind = "struct" /\ x.type # "time.Time" /\ ~HasEncoder(sf.val)
                THEN IF Omitted(sf) THEN {} ELSE LeafKeys(x, Append(path, nm), sure)
                ELSE IF sure
                THEN IF x.kind \in {"bool", "int", "string"} /\ ~HasEncoder(sf.val)
                        /\ ~Has(sf, omitempty)
                     THEN { PathKey(Append(path, nm)) }
                     ELSE {}
                ELSE { PathKey(Append(path, nm)) \o sfx : sfx \in KeySuffixes(sf) }
          : i \in 1..Len(rec.fields) }

\* some embedded field of x, at any depth, is a pointer
RECURSIVE HasEmbeddedPointer(_)
HasEmbeddedPointer(x) ==
    IF x.kind = "struct"
    THEN \E i \in 1..Len(x.fields) :
            \/ x.fields[i].Anonymous /\ x.fields[i].val.kind = "ptr"
            \/ HasEmbeddedPointer(x.fields[i].val)
    ELSE IF x.kind = "ptr" /\ ~x.isNil THEN HasEmbeddedPointer(x.elem)
    ELSE FALSE

---------------------------------------------------------------------------
(* C8 *)

\* C8: a field whose value is a chain of non-nil pointers to X contributes
\* what the field contributes with the value X.
C8_PointerAsPointee ==
    pc = "done" =>
        \A i \in 1..Len(TopFields) : \A scope \in ScopeSamples :
            LET sf == TopFields[i] IN
            (Visible(sf) /\ sf.val.kind = "ptr" /\ Pointee(sf.val).kind # "ptr") =>
                Contribution(sf, scope) = Contribution([sf EXCEPT !.val = Pointee(sf.val)], scope)

---------------------------------------------------------------------------
(* C9 *)

\* the value the encoder of a field is invoked on: the value, the value
\* pointed to, or a zero value if the pointer is nil
EncoderInstance(x) ==
    IF x.kind = "ptr" THEN (IF x.isNil THEN [x.elem EXCEPT !.n = 0] ELSE x.elem) ELSE x

---------------------------------------------------------------------------
(* C10 *)

\* the field is an embedded record without tag name, encoded after the
\* direct fields
Deferred(sf) == sf.Anonymous /\ sf.val.kind = "struct" /\ TagName(sf) = <<>>

\* the values under k of the fields of fs, one field after the other
ValuesInOrder(fs, k) ==
    Concat([ i \in 1..Len(fs) |-> At(Contribution(fs[i], <<>>).values, k) ])

=============================================================================
